---- MODULE Spec2Model ----
(***************************************************************************)
(* BMI calculator (App.js, second version): the calculation pipeline of    *)
(* calculateBMI, the classification helpers, and the history list with its *)
(* AsyncStorage persistence.                                               *)
(*                                                                         *)
(* JavaScript numbers are modelled as exact rationals over multi-limb      *)
(* naturals (TLC integers are 32 bits wide); strings are sequences of      *)
(* one-character strings.  For the input texts enumerated below the IEEE   *)
(* double evaluation of the same expressions yields the same toFixed(1)    *)
(* text and the same classification as the exact evaluation.               *)
(***************************************************************************)
EXTENDS Integers, Sequences, FiniteSets, TLC

\* ---------------------------------------------------------------------------
\* Bounds of the model
\* ---------------------------------------------------------------------------
MaxHist == 2
MaxTime == 1
MaxPending == 2
MaxProbe == 3200

\* ---------------------------------------------------------------------------
\* Multi-limb naturals: little-endian sequences of limbs in 0 .. 9999,
\* without leading zero limbs; << >> is zero.
\* ---------------------------------------------------------------------------
RECURSIVE BigOf(_)
BigOf(n) == IF n = 0 THEN << >> ELSE << n % 10000 >> \o BigOf(n \div 10000)

RECURSIVE BigCarry(_, _)
BigCarry(s, c) ==
    IF s = << >> THEN BigOf(c)
    ELSE LET t == Head(s) + c
         IN  << t % 10000 >> \o BigCarry(Tail(s), t \div 10000)

RECURSIVE BigCoef(_, _, _, _)
BigCoef(a, b, k, i) ==
    IF i > Len(a) THEN 0
    ELSE (IF k + 1 - i >= 1 /\ k + 1 - i <= Len(b) THEN a[i] * b[k + 1 - i] ELSE 0)
         + BigCoef(a, b, k, i + 1)

BigMul(a, b) ==
    IF a = << >> \/ b = << >> THEN << >>
    ELSE BigCarry([k \in 1 .. (Len(a) + Len(b) - 1) |-> BigCoef(a, b, k, 1)], 0)

RECURSIVE BigAddFrom(_, _, _, _)
BigAddFrom(a, b, i, c) ==
    IF i > Len(a) /\ i > Len(b) THEN BigOf(c)
    ELSE LET t == (IF i <= Len(a) THEN a[i] ELSE 0)
                  + (IF i <= Len(b) THEN b[i] ELSE 0) + c
         IN  << t % 10000 >> \o BigAddFrom(a, b, i + 1, t \div 10000)

BigAdd(a, b) == BigAddFrom(a, b, 1, 0)

RECURSIVE BigLessFrom(_, _, _)
BigLessFrom(a, b, i) ==
    IF i = 0 THEN FALSE
    ELSE IF a[i] # b[i] THEN a[i] < b[i]
    ELSE BigLessFrom(a, b, i - 1)

BigLess(a, b) ==
    IF Len(a) # Len(b) THEN Len(a) < Len(b) ELSE BigLessFrom(a, b, Len(a))

BigLeq(a, b) == ~BigLess(b, a)

\* floor(n / d) for d > 0, by bisection on lo * d <= n < hi * d
RECURSIVE BigQuotIn(_, _, _, _)
BigQuotIn(n, d, lo, hi) ==
    IF hi = lo + 1 THEN lo
    ELSE LET mid == (lo + hi) \div 2
         IN  IF BigLeq(BigMul(BigOf(mid), d), n)
             THEN BigQuotIn(n, d, mid, hi)
             ELSE BigQuotIn(n, d, lo, mid)

\* the first power of two hi >= 1 with n < hi * d
RECURSIVE BigQuotTop(_, _, _)
BigQuotTop(n, d, hi) ==
    IF BigLess(n, BigMul(BigOf(hi), d)) THEN hi ELSE BigQuotTop(n, d, 2 * hi)

BigQuot(n, d) == BigQuotIn(n, d, 0, BigQuotTop(n, d, 1))

\* ---------------------------------------------------------------------------
\* JavaScript values
\* ---------------------------------------------------------------------------
Null == [type |-> "null"]
Str(s) == [type |-> "string", chars |-> s]
NaN == [type |-> "number", nan |-> TRUE, neg |-> FALSE, num |-> << >>, den |-> << 1 >>]
Num(neg, n, d) == [type |-> "number", nan |-> FALSE, neg |-> neg, num |-> n, den |-> d]
Dec(n, d) == Num(FALSE, BigOf(n), BigOf(d))

\* x * y and x / y on numbers; NaN is absorbing
NumMul(x, y) ==
    IF x.nan \/ y.nan THEN NaN
    ELSE Num(x.neg # y.neg, BigMul(x.num, y.num), BigMul(x.den, y.den))

NumDiv(x, y) ==
    IF x.nan \/ y.nan \/ y.num = << >> THEN NaN
    ELSE Num(x.neg # y.neg, BigMul(x.num, y.den), BigMul(x.den, y.num))

\* x < y and x <= y; every comparison with NaN is false
NumLess(x, y) ==
    IF x.nan \/ y.nan THEN FALSE
    ELSE LET l == BigMul(x.num, y.den)
             r == BigMul(y.num, x.den)
         IN  CASE x.neg /\ y.neg -> BigLess(r, l)
               [] x.neg /\ ~y.neg -> l # << >> \/ r # << >>
               [] ~x.neg /\ y.neg -> FALSE
               [] OTHER -> BigLess(l, r)

NumLeq(x, y) == IF x.nan \/ y.nan THEN FALSE ELSE ~NumLess(y, x)

\* ---------------------------------------------------------------------------
\* Strings
\* ---------------------------------------------------------------------------
Digits == << "0", "1", "2", "3", "4", "5", "6", "7", "8", "9" >>
IsDigit(c) == \E i \in 1 .. 10 : Digits[i] = c
DigitVal(c) == (CHOOSE i \in 1 .. 10 : Digits[i] = c) - 1
IsSpace(c) == c = " "

RECURSIVE IntChars(_)
IntChars(n) ==
    IF n < 10 THEN << Digits[n + 1] >>
    ELSE IntChars(n \div 10) \o << Digits[(n % 10) + 1] >>

RECURSIVE TrimStart(_)
TrimStart(s) ==
    IF s # << >> /\ IsSpace(Head(s)) THEN TrimStart(Tail(s)) ELSE s

RECURSIVE TrimEnd(_)
TrimEnd(s) ==
    IF s # << >> /\ IsSpace(s[Len(s)]) THEN TrimEnd(SubSeq(s, 1, Len(s) - 1)) ELSE s

\* String.prototype.trim
trim(s) == TrimEnd(TrimStart(s))

\* the longest prefix of s made of decimal digits
RECURSIVE DigitRun(_)
DigitRun(s) ==
    IF s # << >> /\ IsDigit(Head(s)) THEN << Head(s) >> \o DigitRun(Tail(s)) ELSE << >>

RECURSIVE DigitsVal(_, _)
DigitsVal(s, acc) ==
    IF s = << >> THEN acc ELSE DigitsVal(Tail(s), 10 * acc + DigitVal(Head(s)))

RECURSIVE Pow10(_)
Pow10(k) == IF k = 0 THEN 1 ELSE 10 * Pow10(k - 1)

RECURSIVE BigPow10(_)
BigPow10(k) == IF k = 0 THEN << 1 >> ELSE BigMul(<< 10 >>, BigPow10(k - 1))

\* the value of the mantissa digits ip.fp scaled by the exponent digits ed
ParseScaled(neg, ip, fp, eneg, ed) ==
    IF eneg
    THEN Num(neg, BigOf(DigitsVal(ip \o fp, 0)),
             BigMul(BigOf(Pow10(Len(fp))), BigPow10(DigitsVal(ed, 0))))
    ELSE Num(neg, BigMul(BigOf(DigitsVal(ip \o fp, 0)), BigPow10(DigitsVal(ed, 0))),
             BigOf(Pow10(Len(fp))))

\* es follows an e or E: an optional sign and the exponent digits
ParseExponentSign(neg, ip, fp, es) ==
    IF es # << >> /\ Head(es) = "-" THEN ParseScaled(neg, ip, fp, TRUE, DigitRun(Tail(es)))
    ELSE IF es # << >> /\ Head(es) = "+"
    THEN ParseScaled(neg, ip, fp, FALSE, DigitRun(Tail(es)))
    ELSE ParseScaled(neg, ip, fp, FALSE, DigitRun(es))

\* rest follows the mantissa: an exponent part or anything else
ParseExponent(neg, ip, fp, rest) ==
    IF ip = << >> /\ fp = << >> THEN NaN
    ELSE IF rest # << >> /\ (Head(rest) = "e" \/ Head(rest) = "E")
    THEN ParseExponentSign(neg, ip, fp, Tail(rest))
    ELSE ParseScaled(neg, ip, fp, FALSE, << >>)

\* rest follows the integer digits: a point and fraction digits, or not
ParseFraction(neg, ip, rest) ==
    IF rest # << >> /\ Head(rest) = "."
    THEN ParseExponent(neg, ip, DigitRun(Tail(rest)),
                       SubSeq(rest, Len(DigitRun(Tail(rest))) + 2, Len(rest)))
    ELSE ParseExponent(neg, ip, << >>, rest)

ParseUnsigned(neg, u) ==
    ParseFraction(neg, DigitRun(u), SubSeq(u, Len(DigitRun(u)) + 1, Len(u)))

ParseSigned(t) ==
    IF t # << >> /\ Head(t) = "-" THEN ParseUnsigned(TRUE, Tail(t))
    ELSE IF t # << >> /\ Head(t) = "+" THEN ParseUnsigned(FALSE, Tail(t))
    ELSE ParseUnsigned(FALSE, t)

\* parseFloat on a string: leading white space, an optional sign, then the
\* longest prefix that is a decimal literal (digits, optionally a point and
\* digits, or a point and digits, optionally an exponent part: e or E, an
\* optional sign, digits); NaN when there is no such prefix.
parseFloatStr(s) == ParseSigned(TrimStart(s))

\* parseFloat(v): a string is parsed; a number is first converted to its
\* shortest round-tripping decimal text, whose parse is the number itself.
parseFloat(v) == IF v.type = "string" THEN parseFloatStr(v.chars) ELSE v

\* the exponent e >= k with 10^e * d <= n < 10^(e+1) * d
RECURSIVE TopExp(_, _, _)
TopExp(n, d, k) ==
    IF BigLess(n, BigMul(BigPow10(k + 1), d)) THEN k ELSE TopExp(n, d, k + 1)

\* the decimal digits of n/d from the position 10^k down to the units, at
\* most left of them, acc being the number the digits before them write
RECURSIVE SigDigits(_, _, _, _, _)
SigDigits(n, d, k, acc, left) ==
    IF k < 0 \/ left = 0 THEN << >>
    ELSE LET fits(c) == BigLeq(BigMul(BigMul(BigAdd(BigMul(acc, << 10 >>), BigOf(c)),
                                             BigPow10(k)), d), n)
             c == CHOOSE i \in 0 .. 9 : fits(i) /\ (i = 9 \/ ~fits(i + 1))
         IN  << Digits[c + 1] >>
             \o SigDigits(n, d, k - 1, BigAdd(BigMul(acc, << 10 >>), BigOf(c)), left - 1)

RECURSIVE StripZeros(_)
StripZeros(s) ==
    IF s # << >> /\ s[Len(s)] = "0" THEN StripZeros(SubSeq(s, 1, Len(s) - 1)) ELSE s

\* Number::toString for x >= 10^21: the significant digits (a double has at
\* most 17), a point after the first one, and the exponent
NumberToStringExp(x) ==
    LET e == TopExp(x.num, x.den, 21)
        ds == StripZeros(SigDigits(x.num, x.den, e, << >>, 17))
    IN  << Head(ds) >> \o (IF Len(ds) > 1 THEN << "." >> \o Tail(ds) ELSE << >>)
        \o << "e", "+" >> \o IntChars(e)

\* 10^21, from which on toFixed writes exponent notation
Big1e21 == << 0, 0, 0, 0, 0, 10 >>

\* Number.prototype.toFixed(1) for x >= 0 or NaN: Number::toString(x) when
\* x >= 10^21; otherwise the integer n with n/10 closest to x, the larger one
\* on a tie, written with one fraction digit.
toFixed1(x) ==
    IF x.nan THEN << "N", "a", "N" >>
    ELSE IF ~x.neg /\ BigLeq(BigMul(Big1e21, x.den), x.num)
    THEN NumberToStringExp(x)
    ELSE LET n == BigQuot(BigAdd(BigMul(BigOf(20), x.num), x.den),
                          BigMul(BigOf(2), x.den))
         IN  (IF x.neg /\ n > 0 THEN << "-" >> ELSE << >>)
             \o IntChars(n \div 10) \o << "." >> \o << Digits[(n % 10) + 1] >>

\* Number.prototype.toFixed(2), used to write a probe value as text
toFixed2(n) ==
    IntChars(n \div 100) \o << "." >> \o << Digits[((n \div 10) % 10) + 1] >>
    \o << Digits[(n % 10) + 1] >>

\* ---------------------------------------------------------------------------
\* Classification helpers
\* ---------------------------------------------------------------------------
\* getBMICategory with the 18.5 boundary put in the lower bin
getBMICategoryLowerTie(b) ==
    LET value == parseFloat(b)
    IN  IF NumLeq(value, Dec(185, 10)) THEN "Underweight"
        ELSE IF NumLess(value, Dec(25, 1)) THEN "Normal Weight"
        ELSE IF NumLess(value, Dec(30, 1)) THEN "Overweight"
        ELSE "Obese"

getBMICategory(b) ==
    LET value == parseFloat(b)
    IN  IF NumLess(value, Dec(185, 10)) THEN "Underweight"
        ELSE IF NumLess(value, Dec(25, 1)) THEN "Normal Weight"
        ELSE IF NumLess(value, Dec(30, 1)) THEN "Overweight"
        ELSE "Obese"

getBMIColor(b) ==
    LET value == parseFloat(b)
    IN  IF NumLess(value, Dec(185, 10)) THEN "#38bdf8"
        ELSE IF NumLess(value, Dec(25, 1)) THEN "#4ade80"
        ELSE IF NumLess(value, Dec(30, 1)) THEN "#fbbf24"
        ELSE "#f87171"

\* ---------------------------------------------------------------------------
\* Serialisation of the history
\* ---------------------------------------------------------------------------
\* what AsyncStorage holds under STORAGE_KEY: nothing, or a text
NoData == [kind |-> "null", items |-> << >>]
\* a stored text that is not JSON
Corrupt == [kind |-> "garbage", items |-> << >>]

\* stringifyItem writing the category under "color" and the color under "category"
stringifyItemSwapped(e) ==
    [kind |-> "object",
     members |-> << << "id", e.id >>, << "bmi", e.bmi >>,
                    << "category", e.color >>, << "date", e.date >>,
                    << "color", e.category >> >>]

stringifyItem(e) ==
    [kind |-> "object",
     members |-> << << "id", e.id >>, << "bmi", e.bmi >>,
                    << "category", e.category >>, << "date", e.date >>,
                    << "color", e.color >> >>]

JSONstringify(list) ==
    [kind |-> "array", items |-> [i \in 1 .. Len(list) |-> stringifyItem(list[i])]]

Member(o, key) ==
    LET i == CHOOSE j \in 1 .. Len(o.members) : o.members[j][1] = key
    IN  o.members[i][2]

parseItem(o) ==
    [id |-> Member(o, "id"), bmi |-> Member(o, "bmi"),
     category |-> Member(o, "category"), date |-> Member(o, "date"),
     color |-> Member(o, "color")]

\* JSON.parse throws on a text that is not JSON
JSONparseThrows(text) == text.kind # "array"
JSONparse(text) == [i \in 1 .. Len(text.items) |-> parseItem(text.items[i])]

\* ---------------------------------------------------------------------------
\* Inputs
\* ---------------------------------------------------------------------------
Units == {"metric", "imperial"}

\* values of Math.floor(Math.random() * 1000): the two ends of its range
RandSuffixes == {0, 999}

\* texts typed into either field
Texts ==
    { << " " >>, << "a" >>, << "0" >>, << "-", "5" >>,
      << "1", "0", "0" >>, << "2", "5" >>, << "1", "8", ".", "4", "6" >>,
      << " ", "2", "0", "0", " " >>, << "7", "4" >>, << "2", "9", ".", "9", "6" >>,
      << "1", "7", "0" >>, << "6", "5" >>, << "1", "7", "5" >>, << "7", "0" >>,
      << "6", "8", ".", "9" >>, << "1", "5", "4", ".", "3" >> }

\* a height of 0.00000001 with a weight of 100: a positive pair whose
\* result, 10^22, is beyond the range toFixed writes in fixed notation
TinyHeight == << "0", ".", "0", "0", "0", "0", "0", "0", "0", "1" >>
TinyPairs == { << TinyHeight, << "1", "0", "0" >>, "metric" >> }

\* a weight typed over the one a calculation was made with
RetypedWeights == { << "0" >> }

\* texts typed while the history and the store are exercised
CoreHeights == { << "1", "0", "0" >> }
CoreWeights == { << "1", "8", ".", "4", "6" >> }

VARIABLES
    height,     \* useState('')           text of the height field
    weight,     \* useState('')           text of the weight field
    bmi,        \* useState(null)         current result: Null or a string
    unit,       \* useState('metric')
    history,    \* useState([])           in-memory history, newest first
    alert,      \* title of the alert on screen, "none" when there is none
    stored,     \* AsyncStorage: value under STORAGE_KEY
    queue,      \* AsyncStorage: requests issued and not yet completed, FIFO
    now,        \* the clock read by Date.now() and new Date()
    escaped,    \* a rejected promise left an async handler unhandled
    probe       \* argument and results of a direct call of the helpers

vars == << height, weight, bmi, unit, history, alert, stored, queue, now,
           escaped, probe >>

form == << height, weight, bmi, unit >>
store == << stored, queue >>

NoProbe == [n |-> 0, arg |-> Null, category |-> "", color |-> ""]

\* ---------------------------------------------------------------------------
\* calculateBMI, step by step
\* ---------------------------------------------------------------------------
\* the alert calculateBMI raises for the two texts, "none" when it accepts
validation(h, w) ==
    LET hRaw == trim(h)
        wRaw == trim(w)
    IN  IF hRaw = << >> \/ wRaw = << >> THEN "Missing Data"
        ELSE IF NumLeq(parseFloatStr(hRaw), Dec(0, 1))
                \/ NumLeq(parseFloatStr(wRaw), Dec(0, 1)) THEN "Invalid Input"
        ELSE "none"

\* bmiValueOf taking inches for centimetres and pounds for kilograms
bmiValueOfNoConversion(hNum, wNum, u) ==
    LET h == NumDiv(hNum, Dec(100, 1))
    IN  NumDiv(wNum, NumMul(h, h))

\* unit conversion and the BMI formula w / (h * h)
bmiValueOf(hNum, wNum, u) ==
    LET h == IF u = "imperial" THEN NumMul(hNum, Dec(254, 10000))
             ELSE NumDiv(hNum, Dec(100, 1))
        w == IF u = "imperial" THEN NumMul(wNum, Dec(453592, 1000000)) ELSE wNum
    IN  NumDiv(w, NumMul(h, h))

\* "item_" + Date.now() + "_" + Math.floor(Math.random() * 1000)
newId(t, r) == << "item_", t, "_", r >>

\* new Date().toLocaleDateString('en-GB', {day, month}): the day of the clock
toLocaleDateString(t) == << "day", t \div 2 >>

newItem(bmiValue, rounded, t, r) ==
    [id |-> newId(t, r),
     bmi |-> rounded,
     category |-> getBMICategory(bmiValue),
     date |-> toLocaleDateString(t),
     color |-> getBMIColor(bmiValue)]

\* prepend putting the new item last
appendLast(item, list) == list \o << item >>

\* the list calculateBMI stores and saves
prepend(item, list) == << item >> \o list

\* filterOut with the test inverted (=== for !==)
RECURSIVE filterKeep(_, _)
filterKeep(list, id) ==
    IF list = << >> THEN << >>
    ELSE (IF Head(list).id = id THEN << Head(list) >> ELSE << >>)
         \o filterKeep(Tail(list), id)

\* history.filter(item => item.id !== id)
RECURSIVE filterOut(_, _)
filterOut(list, id) ==
    IF list = << >> THEN << >>
    ELSE (IF Head(list).id # id THEN << Head(list) >> ELSE << >>)
         \o filterOut(Tail(list), id)

\* saveHistoryToStorage(newHistory): the request it issues
saveRequest(newHistory) == [op |-> "setItem", value |-> JSONstringify(newHistory)]
getRequest == [op |-> "getItem", value |-> NoData]
removeRequest == [op |-> "removeItem", value |-> NoData]

\* the value under STORAGE_KEY once AsyncStorage has carried out a request
storeAfter(req, s) ==
    IF req.op = "setItem" THEN req.value
    ELSE IF req.op = "removeItem" THEN NoData
    ELSE s

\* loadResult without the setHistory call
loadResultKeeps(s, h) == h

\* the in-memory history once loadHistory has read s from the store:
\* if (storedData !== null) setHistory(JSON.parse(storedData)), a throw caught
loadResult(s, h) ==
    IF s = NoData \/ JSONparseThrows(s) THEN h ELSE JSONparse(s)

\* what the result card shows: rendered only when bmi is truthy
resultCard(b) ==
    IF b.type = "string" /\ b.chars # << >>
    THEN [shown |-> TRUE, text |-> b.chars,
          category |-> getBMICategory(b), color |-> getBMIColor(b)]
    ELSE [shown |-> FALSE, text |-> << >>, category |-> "", color |-> ""]

\* ---------------------------------------------------------------------------
\* Initial state: the component is mounted, useEffect has called loadHistory,
\* whose getItem is in flight.  The store is empty or holds an unreadable text;
\* lists written by earlier runs arise through Restart.
\* ---------------------------------------------------------------------------
Mounted ==
    /\ height = << >>
    /\ weight = << >>
    /\ bmi = Null
    /\ unit = "metric"
    /\ history = << >>
    /\ alert = "none"
    /\ queue = << getRequest >>
    /\ escaped = FALSE

Init ==
    /\ Mounted
    /\ stored \in {NoData, Corrupt}
    /\ now = 0
    /\ probe = NoProbe

\* ---------------------------------------------------------------------------
\* The handlers.  An alert is modal: no other control is reachable until it is
\* dismissed.
\* ---------------------------------------------------------------------------
setHeight(t) ==
    /\ alert = "none"
    /\ height' = t
    /\ UNCHANGED << weight, bmi, unit, history, alert, store, now, escaped, probe >>

setWeight(t) ==
    /\ alert = "none"
    /\ weight' = t
    /\ UNCHANGED << height, bmi, unit, history, alert, store, now, escaped, probe >>

setUnit(u) ==
    /\ alert = "none"
    /\ unit' = u
    /\ UNCHANGED << height, weight, bmi, history, alert, store, now, escaped, probe >>

\* calculateRejected also dropping the result on screen
calculateRejectedClears ==
    /\ alert = "none"
    /\ validation(height, weight) # "none"
    /\ alert' = validation(height, weight)
    /\ bmi' = Null
    /\ UNCHANGED << height, weight, unit, history, store, now, escaped, probe >>

\* calculateBMI ending in showAlert and return
calculateRejected ==
    /\ alert = "none"
    /\ validation(height, weight) # "none"
    /\ alert' = validation(height, weight)
    /\ UNCHANGED << form, history, store, now, escaped, probe >>

\* calculateBMI running to its end; r is the value of Math.floor(Math.random() * 1000)
calculateAccepted(r) ==
    /\ alert = "none"
    /\ Len(history) < MaxHist
    /\ Len(queue) < MaxPending
    /\ UNCHANGED << height, weight, unit, alert, stored, now, escaped, probe >>
    /\ validation(height, weight) = "none"
    /\ LET bmiValue == bmiValueOf(parseFloatStr(trim(height)), parseFloatStr(trim(weight)), unit)
           rounded == toFixed1(bmiValue)
           updatedHistory == prepend(newItem(bmiValue, rounded, now, r), history)
       IN  /\ bmi' = Str(rounded)
           /\ history' = updatedHistory
           /\ queue' = Append(queue, saveRequest(updatedHistory))

calculateBMI == calculateRejected \/ \E r \in RandSuffixes : calculateAccepted(r)

deleteItem(id) ==
    /\ alert = "none"
    /\ Len(queue) < MaxPending
    /\ LET updatedHistory == filterOut(history, id)
       IN  /\ history' = updatedHistory
           /\ queue' = Append(queue, saveRequest(updatedHistory))
    /\ UNCHANGED << form, alert, stored, now, escaped, probe >>

\* clearHistory without the removeItem call
clearHistoryMemoryOnly ==
    /\ alert = "none"
    /\ Len(queue) < MaxPending
    /\ history' = << >>
    /\ UNCHANGED << form, alert, store, now, escaped, probe >>

clearHistory ==
    /\ alert = "none"
    /\ Len(queue) < MaxPending
    /\ history' = << >>
    /\ queue' = Append(queue, removeRequest)
    /\ UNCHANGED << form, alert, stored, now, escaped, probe >>

\* clearForm without the setBmi(null) call
clearFormKeepsResult ==
    /\ alert = "none"
    /\ height' = << >>
    /\ weight' = << >>
    /\ UNCHANGED << bmi, unit, history, alert, store, now, escaped, probe >>

clearForm ==
    /\ alert = "none"
    /\ height' = << >>
    /\ weight' = << >>
    /\ bmi' = Null
    /\ UNCHANGED << unit, history, alert, store, now, escaped, probe >>

dismissAlert ==
    /\ alert # "none"
    /\ alert' = "none"
    /\ UNCHANGED << form, history, store, now, escaped, probe >>

\* ---------------------------------------------------------------------------
\* AsyncStorage completes the oldest request; the awaiting function resumes.
\* ---------------------------------------------------------------------------
\* loadHistory after a successful getItem
loadResolved ==
    /\ queue # << >> /\ Head(queue).op = "getItem"
    /\ queue' = Tail(queue)
    /\ history' = loadResult(stored, history)
    /\ UNCHANGED << form, alert, stored, now, escaped, probe >>

\* loadHistory after a rejected getItem
loadRejected ==
    /\ queue # << >> /\ Head(queue).op = "getItem"
    /\ queue' = Tail(queue)
    /\ UNCHANGED << form, history, alert, stored, now, escaped, probe >>

\* saveHistoryToStorage after a successful setItem
saveResolved ==
    /\ queue # << >> /\ Head(queue).op = "setItem"
    /\ queue' = Tail(queue)
    /\ stored' = storeAfter(Head(queue), stored)
    /\ UNCHANGED << form, history, alert, now, escaped, probe >>

\* saveHistoryToStorage after a rejected setItem
saveRejected ==
    /\ queue # << >> /\ Head(queue).op = "setItem"
    /\ queue' = Tail(queue)
    /\ UNCHANGED << form, history, alert, stored, now, escaped, probe >>

\* clearHistory after a successful removeItem
removeResolved ==
    /\ queue # << >> /\ Head(queue).op = "removeItem"
    /\ queue' = Tail(queue)
    /\ stored' = storeAfter(Head(queue), stored)
    /\ UNCHANGED << form, history, alert, now, escaped, probe >>

\* clearHistory after a rejected removeItem: nothing catches the rejection
removeRejected ==
    /\ queue # << >> /\ Head(queue).op = "removeItem"
    /\ queue' = Tail(queue)
    /\ escaped' = TRUE
    /\ UNCHANGED << form, history, alert, stored, now, probe >>

\* ---------------------------------------------------------------------------
\* Environment: the clock advances; the process is stopped and started again
\* (requests not yet completed are lost with it).
\* ---------------------------------------------------------------------------
Tick ==
    /\ now < MaxTime
    /\ now' = now + 1
    /\ UNCHANGED << form, history, alert, store, escaped, probe >>

Restart ==
    /\ height' = << >>
    /\ weight' = << >>
    /\ bmi' = Null
    /\ unit' = "metric"
    /\ history' = << >>
    /\ alert' = "none"
    /\ queue' = << getRequest >>
    /\ escaped' = FALSE
    /\ UNCHANGED << stored, now, probe >>

\* ---------------------------------------------------------------------------
\* The program driven through the controls it renders
\* ---------------------------------------------------------------------------
\* the trash button of a rendered history card
pressDelete == \E i \in 1 .. Len(history) : deleteItem(history[i].id)

\* "Clear All", rendered while the history is not empty
pressClearAll == history # << >> /\ clearHistory

\* the refresh button of the result card, rendered while bmi is truthy
pressReset == resultCard(bmi).shown /\ clearForm

Next ==
    \/ \E t \in CoreHeights : setHeight(t)
    \/ \E t \in CoreWeights : setWeight(t)
    \/ \E u \in Units : setUnit(u)
    \/ calculateRejected
    \/ \E r \in RandSuffixes : calculateAccepted(r)
    \/ pressDelete
    \/ pressClearAll
    \/ pressReset
    \/ dismissAlert
    \/ loadResolved
    \/ loadRejected
    \/ saveResolved
    \/ saveRejected
    \/ removeResolved
    \/ removeRejected
    \/ Tick
    \/ Restart

Spec == Init /\ [][Next]_vars

\* the same with a store whose requests never fail
NextReliable ==
    \/ \E t \in CoreHeights : setHeight(t)
    \/ \E t \in CoreWeights : setWeight(t)
    \/ \E u \in Units : setUnit(u)
    \/ calculateRejected
    \/ \E r \in RandSuffixes : calculateAccepted(r)
    \/ pressDelete
    \/ pressClearAll
    \/ pressReset
    \/ dismissAlert
    \/ loadResolved
    \/ saveResolved
    \/ removeResolved
    \/ Tick
    \/ Restart

SpecReliable == Init /\ [][NextReliable]_vars

\* the rendered controls again, in metric mode with the random suffix 0, on a
\* store whose requests can fail
NextFailing ==
    \/ \E t \in CoreHeights : setHeight(t)
    \/ \E t \in CoreWeights : setWeight(t)
    \/ calculateRejected
    \/ calculateAccepted(0)
    \/ pressDelete
    \/ pressClearAll
    \/ pressReset
    \/ dismissAlert
    \/ loadResolved
    \/ loadRejected
    \/ saveResolved
    \/ saveRejected
    \/ removeResolved
    \/ removeRejected
    \/ Tick
    \/ Restart

SpecFailing == Init /\ [][NextFailing]_vars

\* ---------------------------------------------------------------------------
\* The handlers called directly: in every state and, for deleteItem, with
\* every id, also one that no entry has.  The unit stays metric and the
\* random suffix is 0; every storage request can fail.
\* ---------------------------------------------------------------------------
\* every id calculateBMI can have produced here, and one it cannot
Ids == { newId(t, 0) : t \in 0 .. MaxTime } \cup { newId(0, 1000) }

NextStore ==
    \/ \E t \in CoreHeights : setHeight(t)
    \/ \E t \in CoreWeights : setWeight(t)
    \/ calculateRejected
    \/ calculateAccepted(0)
    \/ \E id \in Ids : deleteItem(id)
    \/ clearHistory
    \/ clearForm
    \/ dismissAlert
    \/ loadResolved
    \/ loadRejected
    \/ saveResolved
    \/ saveRejected
    \/ removeResolved
    \/ removeRejected
    \/ Tick
    \/ Restart

SpecStore == Init /\ [][NextStore]_vars

\* ---------------------------------------------------------------------------
\* The calculation on every pair of texts: the fields and the unit are drawn
\* at the start (any of them can have been typed), then Calculate is pressed;
\* the weight can be typed over afterwards.
\* ---------------------------------------------------------------------------
InitForm ==
    /\ \E p \in ((Texts \cup { << >> }) \X (Texts \cup { << >> }) \X Units)
                  \cup TinyPairs :
          /\ height = p[1]
          /\ weight = p[2]
          /\ unit = p[3]
    /\ bmi = Null
    /\ history = << >>
    /\ alert = "none"
    /\ queue = << getRequest >>
    /\ escaped = FALSE
    /\ stored = NoData
    /\ now = 0
    /\ probe = NoProbe

NextForm ==
    \/ \E t \in RetypedWeights : setWeight(t)
    \/ calculateRejected
    \/ calculateAccepted(0)
    \/ clearForm
    \/ dismissAlert
    \/ loadResolved
    \/ saveResolved

SpecForm == InitForm /\ [][NextForm]_vars

\* ---------------------------------------------------------------------------
\* The helpers called directly, on a number n/100 and on its text
\* ---------------------------------------------------------------------------
InitClassify ==
    /\ Mounted
    /\ stored = NoData
    /\ now = 0
    /\ \E n \in 0 .. MaxProbe :
          probe \in { [n |-> n, arg |-> Dec(n, 100), category |-> "", color |-> ""],
                      [n |-> n, arg |-> Str(toFixed2(n)), category |-> "", color |-> ""] }

classify ==
    /\ probe.category = ""
    /\ probe' = [probe EXCEPT !.category = getBMICategory(probe.arg),
                              !.color = getBMIColor(probe.arg)]
    /\ UNCHANGED << form, history, alert, store, now, escaped >>

NextClassify == classify

SpecClassify == InitClassify /\ [][NextClassify]_vars

\* ===========================================================================
\* Properties
\* ===========================================================================

\* the bin of n/100 by the table: < 18.5, 18.5 - < 25, 25 - < 30, >= 30
BinCategory(n) ==
    IF n < 1850 THEN "Underweight"
    ELSE IF n < 2500 THEN "Normal Weight"
    ELSE IF n < 3000 THEN "Overweight"
    ELSE "Obese"

\* the color paired with each category
ColorOf(c) ==
    IF c = "Underweight" THEN "#38bdf8"
    ELSE IF c = "Normal Weight" THEN "#4ade80"
    ELSE IF c = "Overweight" THEN "#fbbf24"
    ELSE "#f87171"

\* C1: for every value v = n/100 >= 0, given as a number or as its text,
\* getBMICategory returns the label of the one half-open bin that holds v
\* (a value on a boundary belongs to the upper bin) and getBMIColor returns
\* the color paired with that label.
C1_Bins ==
    probe.category # "" =>
        /\ probe.category = BinCategory(probe.n)
        /\ probe.color = ColorOf(probe.category)

\* C1 witness: the helpers were called on exactly 18.5, 25 and 30 and on the
\* values just below; here 18.5 given as text, classified Normal Weight.
C1_Witness ==
    /\ probe.n = 1850
    /\ probe.arg.type = "string"
    /\ probe.category = "Normal Weight"
    /\ probe.color = "#4ade80"

\* a text that is a decimal numeral as a whole: an optional sign, digits with
\* at most one point, at least one digit
IsNumeral(s) ==
    LET u == IF s # << >> /\ (s[1] = "-" \/ s[1] = "+") THEN Tail(s) ELSE s
    IN  /\ \E i \in 1 .. Len(u) : IsDigit(u[i])
        /\ \A i \in 1 .. Len(u) : IsDigit(u[i]) \/ u[i] = "."
        /\ Cardinality({ i \in 1 .. Len(u) : u[i] = "." }) <= 1

\* a text that is present, numeric and strictly positive
ValidText(s) ==
    LET t == trim(s)
    IN  /\ IsNumeral(t)
        /\ t[1] # "-"
        /\ \E i \in 1 .. Len(t) : IsDigit(t[i]) /\ t[i] # "0"

\* C2: calculateBMI produces a result only when both texts are numeric and
\* strictly positive; a missing, blank, non-numeric, zero or negative height
\* or weight ends in an alert and no result, in either unit mode.
C2_RejectsInvalid ==
    [][ /\ (\E r \in RandSuffixes : calculateAccepted(r))
            => (ValidText(height) /\ ValidText(weight))
        /\ (calculateRejected /\ alert = "none")
            => (alert' # "none" /\ bmi' = bmi /\ history' = history)
      ]_vars

\* C3: for every successful calculation the category and color of the new
\* history entry and those shown in the result card are both the ones of the
\* bin that holds the unrounded value, so the card and the entry agree.
C3_CardAgreesWithEntry ==
    [][ \A r \in RandSuffixes : calculateAccepted(r) =>
          LET unrounded == bmiValueOf(parseFloatStr(trim(height)),
                                      parseFloatStr(trim(weight)), unit)
          IN  /\ Head(history').category = getBMICategory(unrounded)
              /\ Head(history').color = getBMIColor(unrounded)
              /\ resultCard(bmi').shown
              /\ resultCard(bmi').category = Head(history').category
              /\ resultCard(bmi').color = Head(history').color
      ]_vars

UniqueIds(list) ==
    \A i, j \in 1 .. Len(list) : list[i].id = list[j].id => i = j

\* the list held under the storage key, an absent key counting as empty
storedList == IF stored.kind = "array" THEN JSONparse(stored) ELSE << >>

\* C4: in every reachable state no two entries of the in-memory history, and
\* no two entries of the persisted list, have the same id.
C4_UniqueIds == UniqueIds(history) /\ UniqueIds(storedList)

\* C5: whenever no storage request is pending, the list stored under the key
\* equals the in-memory history (an absent key counting as the empty list);
\* a store holding an unreadable text is left out of the statement.
C5_InSync == (queue = << >> /\ stored # Corrupt) => storedList = history

Last(q) == q[Len(q)]

\* C6: every successful calculateBMI prepends exactly one entry: the new
\* history is the new entry followed by the previous history in its order,
\* the new entry's bmi is the displayed rounded result, and the full new list
\* is what the save request carries.  (Only a step that lengthens the history
\* can be such a call; that is tested first.)
C6_Prepends ==
    [][ \A r \in RandSuffixes :
          (Len(history') > Len(history) /\ calculateAccepted(r)) =>
          /\ Len(history') = Len(history) + 1
          /\ SubSeq(history', 2, Len(history')) = history
          /\ Head(history').id = newId(now, r)
          /\ bmi'.type = "string"
          /\ Head(history').bmi = bmi'.chars
          /\ Len(queue') = Len(queue) + 1
          /\ Last(queue') = [op |-> "setItem", value |-> JSONstringify(history')]
      ]_vars

\* C6 witness: a second calculation put its entry in front of an older one
\* and its save request, carrying both, is in flight.
C6_Witness ==
    /\ Len(history) = 2
    /\ history[1].id # history[2].id
    /\ bmi = Str(history[1].bmi)
    /\ queue # << >>
    /\ Last(queue) = [op |-> "setItem", value |-> JSONstringify(history)]

\* C7: deleteItem(id) leaves exactly the entries whose id differs from id,
\* in their previous order, and hands that list to the save; when no entry
\* has that id the history is unchanged.
C7_DeleteFilters ==
    [][ \A id \in Ids : deleteItem(id) =>
          /\ history' = SelectSeq(history, LAMBDA e : e.id # id)
          /\ Last(queue') = [op |-> "setItem", value |-> JSONstringify(history')]
          /\ (\A i \in 1 .. Len(history) : history[i].id # id) => history' = history
      ]_vars

\* C7 witness: deleteItem ran on a history of two entries with an id that
\* neither has (the store already held that list), and both are still there.
C7_Witness ==
    /\ Len(history) = 2
    /\ stored = JSONstringify(history)
    /\ queue = << [op |-> "setItem", value |-> JSONstringify(history)] >>

\* the store once every pending request has completed, in order
RECURSIVE Drain(_, _)
Drain(s, q) == IF q = << >> THEN s ELSE Drain(storeAfter(Head(q), s), Tail(q))

\* C8: clearHistory empties the in-memory history and, once its removal and
\* the writes issued before it have completed, nothing is stored under the
\* key, so that loadHistory at the next start yields the empty list.
C8_ClearThenLoadEmpty ==
    [][ clearHistory =>
          /\ history' = << >>
          /\ Drain(stored', queue') = NoData
          /\ loadResult(Drain(stored', queue'), << >>) = << >>
      ]_vars

\* C8 witness: clearHistory ran while the write of a non-empty list was still
\* in flight.
C8_Witness ==
    /\ history = << >>
    /\ Len(queue) = 2
    /\ queue[1].op = "setItem" /\ queue[1].value.items # << >>
    /\ queue[2] = removeRequest

\* C9: after a successful calculateBMI, once its write has completed, a
\* restart followed by loadHistory yields a list whose first element equals
\* the appended entry field for field and whose rest is the history before
\* the append.  (Only a step that lengthens the history can be such a call;
\* that is tested first.)
C9_AppendLoadRoundTrip ==
    [][ \A r \in RandSuffixes :
          (Len(history') > Len(history) /\ calculateAccepted(r)) =>
          LET loaded == loadResult(Drain(stored', queue'), << >>)
          IN  /\ Len(loaded) = Len(history) + 1
              /\ loaded[1].id = Head(history').id
              /\ loaded[1].bmi = Head(history').bmi
              /\ loaded[1].category = Head(history').category
              /\ loaded[1].date = Head(history').date
              /\ loaded[1].color = Head(history').color
              /\ Tail(loaded) = history
      ]_vars

\* C9 witness: the process was restarted after a calculation was saved and
\* loadHistory has brought the saved entry back.
C9_Witness ==
    /\ bmi = Null
    /\ queue = << >>
    /\ Len(history) = 1
    /\ stored = JSONstringify(history)
    /\ history[1].bmi = << "1", "8", ".", "5" >>
    /\ history[1].category = "Underweight"

C11_FailuresContained ==
    [][ (saveRejected \/ removeRejected) =>
          (escaped' = escaped /\ history' = history) ]_vars

\* a text made of digits, a point and exactly one more digit
OneDecimal(s) ==
    /\ Len(s) >= 3
    /\ s[Len(s) - 1] = "."
    /\ IsDigit(s[Len(s)])
    /\ \A i \in 1 .. Len(s) - 2 : IsDigit(s[i])

\* the number of tenths such a text denotes
Tenths(s) == DigitsVal(SubSeq(s, 1, Len(s) - 2) \o << s[Len(s)] >>, 0)

\* n/10 is the multiple of 0.1 nearest to p/q, the larger one on a tie
NearestTenth(n, p, q) ==
    /\ BigLeq(BigMul(BigOf(2 * n), q), BigAdd(BigMul(BigOf(20), p), q))
    /\ BigLess(BigMul(BigOf(20), p), BigMul(BigOf(2 * n + 1), q))

\* the one-decimal text denotes w / (h/100)^2 rounded to one decimal, where
\* the texts denote h = hn/hd and w = wn/wd
MetricRounded(text, ht, wt) ==
    LET h == parseFloatStr(trim(ht))
        w == parseFloatStr(trim(wt))
    IN  NearestTenth(Tenths(text),
                     BigMul(BigMul(w.num, BigOf(10000)), BigMul(h.den, h.den)),
                     BigMul(w.den, BigMul(h.num, h.num)))

\* the one-decimal text denotes (w * 0.453592) / (h * 0.0254)^2 rounded to
\* one decimal: w * 45359200 / (h^2 * 64516)
ImperialRounded(text, ht, wt) ==
    LET h == parseFloatStr(trim(ht))
        w == parseFloatStr(trim(wt))
    IN  NearestTenth(Tenths(text),
                     BigMul(BigMul(w.num, BigOf(45359200)), BigMul(h.den, h.den)),
                     BigMul(BigMul(w.den, BigOf(64516)), BigMul(h.num, h.num)))

\* C12: in metric mode, for every strictly positive height h (cm) and weight
\* w (kg), the result of calculateBMI is w / (h/100)^2 rounded to exactly one
\* decimal digit, shown and stored in the new entry; 170 and 65 give 22.5,
\* Normal Weight, and 175 and 70 give 22.9.
C12_MetricFormula ==
    [][ \A r \in RandSuffixes :
          (calculateAccepted(r) /\ unit = "metric"
             /\ ValidText(height) /\ ValidText(weight)) =>
            /\ bmi'.type = "string"
            /\ OneDecimal(bmi'.chars)
            /\ MetricRounded(bmi'.chars, height, weight)
            /\ Head(history').bmi = bmi'.chars
            /\ (height = << "1", "7", "0" >> /\ weight = << "6", "5" >>)
                 => /\ bmi'.chars = << "2", "2", ".", "5" >>
                    /\ Head(history').category = "Normal Weight"
            /\ (height = << "1", "7", "5" >> /\ weight = << "7", "0" >>)
                 => bmi'.chars = << "2", "2", ".", "9" >>
      ]_vars

\* C13: in imperial mode the height is multiplied by 0.0254 and the weight
\* by 0.453592 before the formula, in metric mode the height is divided by
\* 100 and the weight is left alone (stated on every result written in fixed
\* notation); 175 cm / 70 kg in metric mode and 68.9 in / 154.3 lbs in
\* imperial mode both give a rounded result within 0.1 of 22.9.
C13_UnitConversion ==
    [][ \A r \in RandSuffixes :
          (calculateAccepted(r) /\ ValidText(height) /\ ValidText(weight)) =>
            /\ (unit = "imperial" /\ OneDecimal(bmi'.chars))
                 => ImperialRounded(bmi'.chars, height, weight)
            /\ (unit = "metric" /\ OneDecimal(bmi'.chars))
                 => MetricRounded(bmi'.chars, height, weight)
            /\ (\/ unit = "metric" /\ height = << "1", "7", "5" >>
                      /\ weight = << "7", "0" >>
                \/ unit = "imperial" /\ height = << "6", "8", ".", "9" >>
                      /\ weight = << "1", "5", "4", ".", "3" >>)
                 => (OneDecimal(bmi'.chars) /\ Tenths(bmi'.chars) \in 228 .. 230)
      ]_vars

\* C13 witness: 68.9 in and 154.3 lbs were calculated in imperial mode and
\* the result shown is 22.9.
C13_Witness ==
    /\ unit = "imperial"
    /\ height = << "6", "8", ".", "9" >>
    /\ weight = << "1", "5", "4", ".", "3" >>
    /\ bmi = Str(<< "2", "2", ".", "9" >>)
    /\ history # << >>
    /\ history[1].bmi = << "2", "2", ".", "9" >>

\* C14: after clearForm the height text and the weight text are empty and
\* the current result is null, so no result card is shown; the history, the
\* unit mode, the stored value and the pending storage requests are as
\* before.
C14_ClearFormResets ==
    [][ clearForm =>
          /\ height' = << >>
          /\ weight' = << >>
          /\ bmi' = Null
          /\ ~resultCard(bmi').shown
          /\ history' = history
          /\ unit' = unit
          /\ stored' = stored
          /\ queue' = queue
      ]_vars

\* C14 witness: the form was cleared after an imperial calculation whose
\* entry is still in the history and whose write is still in flight.
C14_Witness ==
    /\ height = << >>
    /\ weight = << >>
    /\ bmi = Null
    /\ unit = "imperial"
    /\ Len(history) = 1
    /\ queue # << >>
    /\ Last(queue) = [op |-> "setItem", value |-> JSONstringify(history)]

Categories == {"Underweight", "Normal Weight", "Overweight", "Obese"}

\* an entry with one of the four labels, the color paired with it, and a bmi
\* text with exactly one decimal digit that lies in the bin of the label
EntryWellFormed(e) ==
    /\ e.category \in Categories
    /\ e.color = ColorOf(e.category)
    /\ OneDecimal(e.bmi)
    /\ BinCategory(10 * Tenths(e.bmi)) = e.category

\* C15: every entry of the history carries one of the four labels, the color
\* paired with that label and a bmi written with exactly one decimal digit
\* whose bin is the entry's category; calculateBMI, deleteItem and
\* clearHistory only add or drop whole entries, never change one.
C15_EntriesWellFormed ==
    [][ /\ \A i \in 1 .. Len(history') : EntryWellFormed(history'[i])
        /\ ((\E r \in RandSuffixes : calculateAccepted(r))
             \/ (\E id \in Ids : deleteItem(id)) \/ clearHistory)
            => \A i \in 1 .. Len(history') :
                  \/ \E j \in 1 .. Len(history) : history'[i] = history[j]
                  \/ i = 1 /\ Len(history') = Len(history) + 1
      ]_vars

\* C16: a calculateBMI call that ends in a validation failure raises its
\* alert and changes nothing else: the current result, the in-memory
\* history, the two texts, the unit mode and the stored value are as before
\* and no storage request is added.
C16_RejectionChangesNothing ==
    [][ calculateRejected =>
          /\ alert' \in {"Missing Data", "Invalid Input"}
          /\ bmi' = bmi
          /\ history' = history
          /\ height' = height
          /\ weight' = weight
          /\ unit' = unit
          /\ stored' = stored
          /\ queue' = queue
      ]_vars

\* C16 witness: after a successful calculation the weight was retyped as 0
\* and Calculate pressed again: the alert is up, the earlier result and its
\* entry are still there.
C16_Witness ==
    /\ alert = "Invalid Input"
    /\ weight = << "0" >>
    /\ bmi # Null
    /\ Len(history) = 1
    /\ bmi.chars = history[1].bmi

\* C17: an entry of the in-memory history stays in it across every step that
\* is not a deleteItem, a clearHistory or the end of the process, whatever
\* the order in which user actions and the completion of the loadHistory
\* read started on mount take place.
C17_NoEntryLost ==
    [][ ~(pressDelete \/ pressClearAll \/ Restart) =>
          \A i \in 1 .. Len(history) :
              \E j \in 1 .. Len(history') : history'[j] = history[i]
      ]_vars

====
